---- MODULE Spec2Model ----
(***************************************************************************)
(* Cluster-based music recommendation: the query path of prediction.py.    *)
(*                                                                         *)
(* Load-time state: the centroid table, the reduced-feature catalogue, the *)
(* metadata table and the label -> song ids map built from the catalogue.  *)
(* Per test file: the fused query vector, the assigned label, the          *)
(* candidate list, the similarity list, the recommendation entries and the *)
(* record stored in predictions.                                           *)
(*                                                                         *)
(* Dicts are sequences of entries in insertion order (Python dicts iterate *)
(* in insertion order, json.load keeps the order of the file).  Vectors    *)
(* are sequences of integers; distances are exact on the integer grid the  *)
(* inputs are drawn from.  A similarity 1.0 / (1.0 + d) is the fraction    *)
(* [num |-> 1, den |-> 1 + d].                                             *)
(***************************************************************************)
EXTENDS Integers, Sequences, FiniteSets, TLC

(* ---------------------------- bounds ---------------------------------- *)
MaxSongs == 12          \* catalogue sizes 0..MaxSongs (more than the cut of 10)
MaxSmall == 3           \* catalogue sizes used with the full centroid tables
MaxLabel == 1           \* centroid labels 0..MaxLabel
MaxCoord == 2           \* vector coordinates 0..MaxCoord
MaxSpecial == 3         \* positions of the one song with irregular metadata

NumClasses == 3         \* YAMNet classes scored per item in the assembler check
LibLen == 2             \* length of the librosa block in the assembler check
EmbLen == 1             \* length of the reduced embedding in the assembler check
MaxFair == 2            \* catalogue sizes of the termination check
NumCalls == 2           \* calls of assign_cluster on one vector
MaxFiles == 3           \* mp3 files in the dataset directory
MaxVideos == 3          \* entries of the playlists
NumRequests == 2        \* concurrent /api/recommend requests

(* ------------------------ program constants --------------------------- *)
Unassigned == -1        \* assign_cluster's label before any centroid is seen
DefaultCluster == -1    \* cluster recorded for a song without cluster info
TopK == 10              \* similarities[:10]
Limit == 10             \* candidate_song_ids[:10]

TopClasses == 20        \* np.argsort(scores_mean)[::-1][:20]
NUM_THREADS == 10       \* metatdata_pair.py line 12
MAX_DURATION_SEC == 600 \* filter_downloads.py line 7
MAX_THREADS == 4        \* ubuntu_downloader.py line 80
Threshold == 15         \* scores_mean[i] > 0.15, scores in hundredths

None == << >>           \* JSON null; a URL string is a one-element sequence

VARIABLES cluster_centroids, features_reduced, song_id_to_meta,
          cluster_to_song_ids, pca,
          pc, final_vec, cluster_id, candidate_song_ids, similarities,
          top_songs, result, trace,
          asm, web, fs, job

vars == << cluster_centroids, features_reduced, song_id_to_meta,
           cluster_to_song_ids, pca,
           pc, final_vec, cluster_id, candidate_song_ids, similarities,
           top_songs, result, trace,
           asm, web, fs, job >>

loaded == << cluster_centroids, features_reduced, song_id_to_meta,
             cluster_to_song_ids >>

\* the per-file names of the prediction loop
perfile == << pc, final_vec, cluster_id, candidate_song_ids, similarities,
             top_songs, result, trace >>

\* state of the assembler comparison, of the web front end and of the
\* script that is run on its own
aside == << asm, web, fs, job >>

\* everything but the state of the script that is run on its own
online == << cluster_centroids, features_reduced, song_id_to_meta,
             cluster_to_song_ids, pca,
             pc, final_vec, cluster_id, candidate_song_ids, similarities,
             top_songs, result, trace, asm, web, fs >>

(* ---------------------------- helpers --------------------------------- *)
Min(a, b) == IF a < b THEN a ELSE b

\* seq[:n]
Take(seq, n) == SubSeq(seq, 1, Min(Len(seq), n))

\* dict.get(key, default) on a function
Get(d, key, default) == IF key \in DOMAIN d THEN d[key] ELSE default

RECURSIVE SumSq(_)
SumSq(v) == IF v = << >> THEN 0 ELSE Head(v) * Head(v) + SumSq(Tail(v))

ISqrt(s) == CHOOSE r \in 0..s : r * r <= s /\ s < (r + 1) * (r + 1)

\* np.linalg.norm(a - b)
Norm(a, b) == ISqrt(SumSq([i \in 1..Len(a) |-> a[i] - b[i]]))

\* a - b raises ValueError for arrays of different length (the lengths
\* stand for fused-vector lengths, which are above 1: no broadcasting)
Mismatch(a, b) == Len(a) # Len(b)


(* ------------------- load (prediction.py lines 24-43) ------------------ *)
\* cluster_to_song_ids: setdefault(data["cluster"], []).append(song_id) over
\* the catalogue in iteration order
RECURSIVE BuildClusterMapFront(_, _)
BuildClusterMapFront(catalogue, acc) ==
    IF catalogue = << >> THEN acc
    ELSE LET data == Head(catalogue)
             members == << data.sid >> \o Get(acc, data.cluster, << >>)
             grown == [l \in DOMAIN acc \cup {data.cluster} |->
                          IF l = data.cluster THEN members ELSE acc[l]]
         IN  BuildClusterMapFront(Tail(catalogue), grown)
RECURSIVE BuildClusterMap(_, _)
BuildClusterMap(catalogue, acc) ==
    IF catalogue = << >> THEN acc
    ELSE LET data == Head(catalogue)
             members == Append(Get(acc, data.cluster, << >>), data.sid)
             grown == [l \in DOMAIN acc \cup {data.cluster} |->
                          IF l = data.cluster THEN members ELSE acc[l]]
         IN  BuildClusterMap(Tail(catalogue), grown)

EmptyMap == [l \in {} |-> << >>]

(* --------------------------- assign_cluster --------------------------- *)
\* dist < min_dist, with min_dist starting at float("inf")
CloserMut(dist, best) == best.inf \/ dist > best.min_dist
Closer(dist, best) == best.inf \/ dist < best.min_dist

RECURSIVE AssignLoop(_, _, _)
AssignLoop(centroids, feature_vec, best) ==
    IF centroids = << >> THEN best.assigned
    ELSE LET c == Head(centroids)
             dist == Norm(feature_vec, c.centroid)
         IN  AssignLoop(Tail(centroids), feature_vec,
                        IF Closer(dist, best)
                        THEN [inf |-> FALSE, min_dist |-> dist, assigned |-> c.lbl]
                        ELSE best)

assign_cluster(feature_vec, centroids) ==
    AssignLoop(centroids, feature_vec,
               [inf |-> TRUE, min_dist |-> 0, assigned |-> Unassigned])

\* feature_vec - centroid raises inside the loop
AssignRaises(feature_vec, centroids) ==
    \E i \in 1..Len(centroids) : Mismatch(feature_vec, centroids[i].centroid)

(* ------------------------- similarity fallback ------------------------ *)
\* 1.0 / (1.0 + np.linalg.norm(final_vec - song_features))
Similarity(vec, song_features) == [num |-> 1, den |-> 1 + Norm(vec, song_features)]

\* a > b on fractions with positive denominators
Greater(a, b) == a.num * b.den > b.num * a.den

\* similarities.append((sid, similarity)) for every catalogue entry
Score(vec, catalogue) ==
    [i \in 1..Len(catalogue) |->
        [sid |-> catalogue[i].sid,
         similarity |-> Similarity(vec, catalogue[i].features)]]

\* place of x in a list already sorted descending: after every entry that
\* is not smaller (equal keys keep their original order)
RECURSIVE InsertDesc(_, _)
InsertDesc(sorted, x) ==
    IF sorted = << >> THEN << x >>
    ELSE IF Greater(x.similarity, Head(sorted).similarity)
         THEN << x >> \o sorted
         ELSE << Head(sorted) >> \o InsertDesc(Tail(sorted), x)

RECURSIVE SortFrom(_, _)
SortFrom(rest, sorted) ==
    IF rest = << >> THEN sorted
    ELSE SortFrom(Tail(rest), InsertDesc(sorted, Head(rest)))

\* list.sort(key=lambda x: x[1], reverse=True): stable, descending
SortDescMut(pairs) ==
    SortFrom([i \in 1..Len(pairs) |-> pairs[Len(pairs) + 1 - i]], << >>)
SortDesc(pairs) == SortFrom(pairs, << >>)

\* similarities[:10]
TopOfMut(sorted) == sorted
TopOf(sorted) == Take(sorted, TopK)

Sids(pairs) == [i \in 1..Len(pairs) |-> pairs[i].sid]

\* final_vec - song_features raises inside the loop; an empty catalogue
\* never enters the loop
FallbackRaisesMut(vec, catalogue) ==
    catalogue = << >> \/ \E i \in 1..Len(catalogue) : Mismatch(vec, catalogue[i].features)
FallbackRaises(vec, catalogue) ==
    \E i \in 1..Len(catalogue) : Mismatch(vec, catalogue[i].features)

(* -------------------------- candidate choice -------------------------- *)
\* if not candidate_song_ids
NeedsFallbackMut(cands) == Len(cands) < Limit
NeedsFallback(cands) == cands = << >>

(* ------------------------------ ranking ------------------------------- *)
\* one dict per candidate of candidate_song_ids[:10] found in the metadata
RECURSIVE EntriesBackwards(_, _)
EntriesBackwards(cands, meta) ==
    IF cands = << >> THEN << >>
    ELSE LET sid == Head(cands)
         IN  IF sid \in DOMAIN meta
             THEN EntriesBackwards(Tail(cands), meta)
                  \o << [song_id |-> sid,
                         title |-> meta[sid].title,
                         perma_url |-> meta[sid].perma_url] >>
             ELSE EntriesBackwards(Tail(cands), meta)
RECURSIVE Entries(_, _)
Entries(cands, meta) ==
    IF cands = << >> THEN << >>
    ELSE LET sid == Head(cands)
         IN  IF sid \in DOMAIN meta
             THEN << [song_id |-> sid,
                      title |-> meta[sid].title,
                      perma_url |-> meta[sid].perma_url] >>
                  \o Entries(Tail(cands), meta)
             ELSE Entries(Tail(cands), meta)

TopSongsUncut(cands, meta) == Entries(cands, meta)
TopSongs(cands, meta) == Entries(Take(cands, Limit), meta)

\* song_meta["perma_url"] raises KeyError when the entry has no such key
RankRaises(cands, meta) ==
    \E i \in 1..Len(Take(cands, Limit)) :
        /\ cands[i] \in DOMAIN meta
        /\ "perma_url" \notin DOMAIN meta[cands[i]]

\* len(candidate_song_ids)
TotalCandidatesMut(cands) == Len(Take(cands, Limit))
TotalCandidates(cands) == Len(cands)

\* "cluster" if cluster_to_song_ids.get(cluster_id) else "similarity"
MethodMut(cid, c2s) == IF cid # Unassigned THEN "cluster" ELSE "similarity"
Method(cid, c2s) ==
    IF Get(c2s, cid, << >>) # << >> THEN "cluster" ELSE "similarity"


(* ----------------------- inputs the program loads ---------------------- *)
Vectors == { << x >> : x \in 0..MaxCoord }
Origin == << 0 >>

\* a fused vector of another length than the catalogue's (sub-blocks of
\* another extractor or reducer version)
WrongVectors == { << 0, 0 >> }

\* the PCA artifact: not yet loaded, or loaded as fitted offline
NoPca == [loaded |-> FALSE, loads |-> 0, fitted |-> "never"]
Artifact == [loaded |-> TRUE, loads |-> 1, fitted |-> "offline"]
Labels == 0..MaxLabel
SongClusters == Labels \cup {DefaultCluster}

\* clusters.json "centroids": any order of keys, keys distinct
CentroidTables ==
    UNION { { t \in [1..k -> [lbl : Labels, centroid : Vectors]] :
                \A i, j \in 1..k : i # j => t[i].lbl # t[j].lbl } :
            k \in 0..Cardinality(Labels) }

\* features_reduced.json: n songs, odd positions recorded with cluster a,
\* even positions with cluster b
Catalogue(n, a, b) ==
    [i \in 1..n |-> [sid |-> i,
                     features |-> << i % (MaxCoord + 1) >>,
                     cluster |-> IF i % 2 = 1 THEN a ELSE b]]

Variants == {"absent", "dup", "null", "nokey"}

\* metadata.json by song_id: every song has its own URL, except song s:
\* not in the table, same URL as song 1, URL null, or no perma_url key
MetaTable(n, s, variant) ==
    [i \in (1..n) \ (IF variant = "absent" THEN {s} ELSE {}) |->
        IF i # s THEN [title |-> i, perma_url |-> << i >>]
        ELSE IF variant = "dup" THEN [title |-> i, perma_url |-> << 1 >>]
        ELSE IF variant = "null" THEN [title |-> i, perma_url |-> None]
        ELSE [title |-> i]]

NoResult == [cluster_id |-> Unassigned, total_candidates |-> 0,
             recommendations |-> << >>, method |-> "none"]

AsideIdle ==
    /\ asm = [step |-> "off"]
    /\ web = << >>
    /\ fs = << >>
    /\ job = << >>

Init ==
    /\ \E n \in 0..MaxSongs, a \in SongClusters, b \in SongClusters,
          cents \in CentroidTables, s \in 0..MaxSpecial, variant \in Variants :
          /\ \/ n <= MaxSmall /\ s = 0
             \/ Len(cents) <= 1 /\ \A i \in 1..Len(cents) : cents[i].centroid = Origin
          /\ cluster_centroids = cents
          /\ features_reduced = Catalogue(n, a, b)
          /\ song_id_to_meta = MetaTable(n, s, variant)
          /\ cluster_to_song_ids = BuildClusterMap(Catalogue(n, a, b), EmptyMap)
    /\ pca = NoPca
    /\ pc = "load"
    /\ final_vec = << >>
    /\ cluster_id = Unassigned
    /\ candidate_song_ids = << >>
    /\ similarities = << >>
    /\ top_songs = << >>
    /\ result = NoResult
    /\ trace = << >>
    /\ AsideIdle

(* ------------------- load (prediction.py lines 45-49) ------------------ *)
\* line 48: pca = joblib.load(PCA_FILE), once, before the loop
Load ==
    /\ pc = "load"
    /\ pca' = [loaded |-> TRUE, loads |-> pca.loads + 1, fitted |-> "offline"]
    /\ pc' = "start"
    /\ UNCHANGED << loaded, final_vec, cluster_id, candidate_song_ids,
                    similarities, top_songs, result, trace, aside >>

(* --------------- one test file (prediction.py lines 139-216) ----------- *)
\* line 144: load_mp3
Decode ==
    /\ pc = "start"
    /\ pc' = "extract"
    /\ trace' = Append(trace, "decode")
    /\ UNCHANGED << loaded, pca, final_vec, cluster_id, candidate_song_ids,
                    similarities, top_songs, result, aside >>

\* line 144 raises: the except clause at 212 records nothing
DecodeFailRetry ==
    /\ pc = "start"
    /\ pc' = IF trace = << >> THEN "start" ELSE "failed"
    /\ trace' = Append(trace, "decode")
    /\ UNCHANGED << loaded, pca, final_vec, cluster_id, candidate_song_ids,
                    similarities, top_songs, result, aside >>
DecodeFail ==
    /\ pc = "start"
    /\ pc' = "failed"
    /\ trace' = Append(trace, "decode")
    /\ UNCHANGED << loaded, pca, final_vec, cluster_id, candidate_song_ids,
                    similarities, top_songs, result, aside >>

\* lines 147-152: extract_librosa, extract_yamnet_with_instruments
Extract ==
    /\ pc = "extract"
    /\ pc' = "reduce"
    /\ trace' = Append(trace, "extract")
    /\ UNCHANGED << loaded, pca, final_vec, cluster_id, candidate_song_ids,
                    similarities, top_songs, result, aside >>

\* lines 147-152 raise: the except clause at 212 records nothing
ExtractFail ==
    /\ pc = "extract"
    /\ pc' = "failed"
    /\ trace' = Append(trace, "extract")
    /\ UNCHANGED << loaded, pca, final_vec, cluster_id, candidate_song_ids,
                    similarities, top_songs, result, aside >>

\* line 155: pca.transform reads the artifact and leaves it as it is
ReduceRefits ==
    /\ pc = "reduce"
    /\ pca.loaded
    /\ pca' = [pca EXCEPT !.fitted = "query"]
    /\ pc' = "combine"
    /\ trace' = Append(trace, "reduce")
    /\ UNCHANGED << loaded, final_vec, cluster_id, candidate_song_ids,
                    similarities, top_songs, result, aside >>
Reduce ==
    /\ pc = "reduce"
    /\ pca.loaded
    /\ pc' = "combine"
    /\ trace' = Append(trace, "reduce")
    /\ UNCHANGED << loaded, pca, final_vec, cluster_id, candidate_song_ids,
                    similarities, top_songs, result, aside >>

\* line 155 raises (embedding of another size than the artifact's input)
ReduceFail ==
    /\ pc = "reduce"
    /\ pc' = "failed"
    /\ trace' = Append(trace, "reduce")
    /\ UNCHANGED << loaded, pca, final_vec, cluster_id, candidate_song_ids,
                    similarities, top_songs, result, aside >>

\* line 159: combine_features never checks the length of what it stacks
Combine ==
    /\ pc = "combine"
    /\ \E v \in Vectors \cup WrongVectors : final_vec' = v
    /\ pc' = "assign"
    /\ trace' = Append(trace, "combine")
    /\ UNCHANGED << loaded, pca, cluster_id, candidate_song_ids, similarities,
                    top_songs, result, aside >>

\* line 163
Assign ==
    /\ pc = "assign"
    /\ ~AssignRaises(final_vec, cluster_centroids)
    /\ cluster_id' = assign_cluster(final_vec, cluster_centroids)
    /\ pc' = "select"
    /\ trace' = Append(trace, "assign")
    /\ UNCHANGED << loaded, pca, final_vec, candidate_song_ids, similarities,
                    top_songs, result, aside >>

\* line 163 raises ValueError: the except clause at 212 records nothing
AssignFail ==
    /\ pc = "assign"
    /\ AssignRaises(final_vec, cluster_centroids)
    /\ pc' = "failed"
    /\ trace' = Append(trace, "assign")
    /\ UNCHANGED << loaded, pca, final_vec, cluster_id, candidate_song_ids,
                    similarities, top_songs, result, aside >>

\* lines 167-170
SelectNoFallback ==
    /\ pc = "select"
    /\ candidate_song_ids' = Get(cluster_to_song_ids, cluster_id, << >>)
    /\ pc' = "rank"
    /\ trace' = Append(trace, "select")
    /\ UNCHANGED << loaded, pca, final_vec, cluster_id, similarities, top_songs,
                    result, aside >>
SelectSetDefault ==
    /\ pc = "select"
    /\ cluster_to_song_ids' =
           [l \in DOMAIN cluster_to_song_ids \cup {cluster_id} |->
               Get(cluster_to_song_ids, l, << >>)]
    /\ candidate_song_ids' = Get(cluster_to_song_ids, cluster_id, << >>)
    /\ pc' = IF NeedsFallback(candidate_song_ids') THEN "fallback" ELSE "rank"
    /\ trace' = Append(trace, "select")
    /\ UNCHANGED << cluster_centroids, features_reduced, song_id_to_meta, pca,
                    final_vec, cluster_id, similarities, top_songs, result,
                    aside >>
Select ==
    /\ pc = "select"
    /\ candidate_song_ids' = Get(cluster_to_song_ids, cluster_id, << >>)
    /\ pc' = IF NeedsFallback(candidate_song_ids') THEN "fallback" ELSE "rank"
    /\ trace' = Append(trace, "select")
    /\ UNCHANGED << loaded, pca, final_vec, cluster_id, similarities, top_songs,
                    result, aside >>

\* lines 173-183
Fallback ==
    /\ pc = "fallback"
    /\ ~FallbackRaises(final_vec, features_reduced)
    /\ similarities' = SortDesc(Score(final_vec, features_reduced))
    /\ candidate_song_ids' = Sids(TopOf(similarities'))
    /\ pc' = "rank"
    /\ trace' = Append(trace, "fallback")
    /\ UNCHANGED << loaded, pca, final_vec, cluster_id, top_songs, result,
                    aside >>

\* line 178 raises ValueError: the except clause at 212 records nothing
FallbackFail ==
    /\ pc = "fallback"
    /\ FallbackRaises(final_vec, features_reduced)
    /\ pc' = "failed"
    /\ trace' = Append(trace, "fallback")
    /\ UNCHANGED << loaded, pca, final_vec, cluster_id, candidate_song_ids,
                    similarities, top_songs, result, aside >>

\* lines 186-199
Rank ==
    /\ pc = "rank"
    /\ ~RankRaises(candidate_song_ids, song_id_to_meta)
    /\ top_songs' = TopSongs(candidate_song_ids, song_id_to_meta)
    /\ pc' = "record"
    /\ trace' = Append(trace, "rank")
    /\ UNCHANGED << loaded, pca, final_vec, cluster_id, candidate_song_ids,
                    similarities, result, aside >>

\* lines 186-199 raise KeyError: the except clause at 212 records nothing
RankFail ==
    /\ pc = "rank"
    /\ RankRaises(candidate_song_ids, song_id_to_meta)
    /\ pc' = "failed"
    /\ trace' = Append(trace, "rank")
    /\ UNCHANGED << loaded, pca, final_vec, cluster_id, candidate_song_ids,
                    similarities, top_songs, result, aside >>

\* lines 201-206
Record ==
    /\ pc = "record"
    /\ result' = [cluster_id |-> cluster_id,
                  total_candidates |-> TotalCandidates(candidate_song_ids),
                  recommendations |-> top_songs,
                  method |-> Method(cluster_id, cluster_to_song_ids)]
    /\ pc' = "done"
    /\ trace' = Append(trace, "record")
    /\ UNCHANGED << loaded, pca, final_vec, cluster_id, candidate_song_ids,
                    similarities, top_songs, aside >>

\* line 139: the loop takes the next file; every per-file name is assigned
\* again before it is read
NextFile ==
    /\ pc \in {"done", "failed"}
    /\ pc' = "start"
    /\ final_vec' = << >>
    /\ cluster_id' = Unassigned
    /\ candidate_song_ids' = << >>
    /\ similarities' = << >>
    /\ top_songs' = << >>
    /\ result' = NoResult
    /\ trace' = << >>
    /\ UNCHANGED << loaded, pca, aside >>

Next ==
    \/ Load
    \/ Decode
    \/ DecodeFail
    \/ Extract
    \/ ExtractFail
    \/ Reduce
    \/ ReduceFail
    \/ Combine
    \/ Assign
    \/ AssignFail
    \/ Select
    \/ Fallback
    \/ FallbackFail
    \/ Rank
    \/ RankFail
    \/ Record
    \/ NextFile

Spec == Init /\ [][Next]_vars

\* the inputs of the progress check: the small catalogues, with at most
\* one centroid
InitFair ==
    /\ Init
    /\ Len(features_reduced) <= MaxFair
    /\ Len(cluster_centroids) <= 1

\* the loop body is straight-line code: a step that can run does run
FairSpec == InitFair /\ [][Next]_vars /\ WF_vars(Next)


(* ======================= properties of the query path ================== *)
\* positions of the catalogue songs recorded with the given cluster label
MemberPositions(label) ==
    { i \in 1..Len(features_reduced) : features_reduced[i].cluster = label }

\* squared Euclidean distance, for comparing distances without a root
Dist2(a, b) == SumSq([i \in 1..Len(a) |-> a[i] - b[i]])

\* position of a song id in the catalogue
PosOf(sid) == CHOOSE i \in 1..Len(features_reduced) : features_reduced[i].sid = sid

Assigned == pc \in {"select", "fallback", "rank", "record", "done"}
Selected == pc \in {"rank", "record", "done"}
RanFallback == \E i \in 1..Len(trace) : trace[i] = "fallback"
Recs == result.recommendations

\* C1: a completed request reports method "cluster" exactly when the
\* assigned label has at least one member in the catalogue, and
\* "similarity" exactly when it has none.
C1_MethodMatchesMembers ==
    pc = "done" =>
        /\ result.method = "cluster" <=> MemberPositions(result.cluster_id) # {}
        /\ result.method = "similarity" <=> MemberPositions(result.cluster_id) = {}

C1_Witness ==
    /\ pc = "done"
    /\ result.cluster_id \in Labels
    /\ features_reduced # << >>
    /\ result.method = "similarity"

\* C2: the recommendation list of a completed request never holds two
\* entries with the same non-null perma_url.
C2_NoDuplicateUrl ==
    pc = "done" =>
        \A i, j \in 1..Len(Recs) :
            (i < j /\ Recs[i].perma_url # None)
                => Recs[i].perma_url # Recs[j].perma_url

\* number of candidates that resolve to a metadata entry
Resolving(cands) ==
    Cardinality({ i \in 1..Len(cands) : cands[i] \in DOMAIN song_id_to_meta })

DistinctUrls(cands) ==
    \A i, j \in 1..Len(cands) :
        (/\ i < j
         /\ cands[i] \in DOMAIN song_id_to_meta
         /\ cands[j] \in DOMAIN song_id_to_meta
         /\ song_id_to_meta[cands[i]].perma_url # None)
            => song_id_to_meta[cands[i]].perma_url
                   # song_id_to_meta[cands[j]].perma_url

\* C3: the number of recommendations is min(Limit, number of candidates
\* that resolve to metadata and are not skipped), also when some of the
\* first Limit candidates do not resolve (stated for candidate lists
\* without a repeated URL, where nothing is to be skipped).
C3_FillsUpToLimit ==
    (pc = "done" /\ DistinctUrls(candidate_song_ids)) =>
        Len(Recs) = Min(Limit, Resolving(candidate_song_ids))

\* size of the pool before any cut: the members of the assigned cluster,
\* or every scored catalogue song on the fallback path
PoolSize ==
    IF RanFallback THEN Len(similarities)
    ELSE Cardinality(MemberPositions(cluster_id))

\* C4 (as claimed): total_candidates is the size of the candidate pool
\* before de-duplication and truncation, on the cluster path and on the
\* fallback path.
C4_TotalIsUncutPool ==
    pc = "done" => result.total_candidates = PoolSize

\* C4 (amended): total_candidates is the number of candidates handed to the
\* ranker: every member of the assigned cluster on the cluster path (also
\* beyond Limit), and the fallback list after its cut to TopK on the
\* fallback path.
C4_TotalIsRankerInput ==
    pc = "done" =>
        result.total_candidates =
            IF RanFallback THEN Min(TopK, Len(features_reduced))
            ELSE Cardinality(MemberPositions(cluster_id))

C4_Witness ==
    /\ pc = "done"
    /\ ~RanFallback
    /\ result.total_candidates > Limit
    /\ Len(Recs) = Limit

\* C5: a request whose assigned label is -1 gets method "similarity" and
\* at most 10 candidates from the similarity search, never the songs
\* recorded with cluster -1.
C5_NoiseFallsBack ==
    (pc = "done" /\ result.cluster_id = Unassigned) =>
        /\ result.method = "similarity"
        /\ RanFallback
        /\ result.total_candidates <= TopK

\* C6: with at least one centroid, the assigned label is the label of a
\* centroid at minimal Euclidean distance from the query vector; it is -1
\* only when there is no centroid.
C6_NearestCentroid ==
    Assigned =>
        IF cluster_centroids = << >> THEN cluster_id = Unassigned
        ELSE \E i \in 1..Len(cluster_centroids) :
                /\ cluster_centroids[i].lbl = cluster_id
                /\ \A j \in 1..Len(cluster_centroids) :
                       Dist2(final_vec, cluster_centroids[i].centroid)
                           <= Dist2(final_vec, cluster_centroids[j].centroid)

C6_Witness ==
    /\ Assigned
    /\ Len(cluster_centroids) >= 2
    /\ cluster_id = cluster_centroids[2].lbl
    /\ Dist2(final_vec, cluster_centroids[2].centroid)
           < Dist2(final_vec, cluster_centroids[1].centroid)

\* labels of the centroids at minimal distance from the query vector
NearestLabels ==
    { cluster_centroids[i].lbl : i \in
        { k \in 1..Len(cluster_centroids) :
            \A j \in 1..Len(cluster_centroids) :
                Dist2(final_vec, cluster_centroids[k].centroid)
                    <= Dist2(final_vec, cluster_centroids[j].centroid) } }

\* C7: among centroids at the same minimal distance the lowest label is
\* assigned, whatever the order of the centroid table.
C7_TieLowestLabel ==
    (Assigned /\ cluster_centroids # << >>) =>
        \A l \in NearestLabels : cluster_id <= l

\* C8: the fallback list holds every catalogue song once, by ascending
\* distance to the query vector, songs at equal distance in catalogue
\* order; the candidates are its first TopK song ids.
C8_FallbackOrder ==
    (Selected /\ RanFallback) =>
        /\ Len(similarities) = Len(features_reduced)
        /\ { similarities[i].sid : i \in 1..Len(similarities) }
               = { features_reduced[i].sid : i \in 1..Len(features_reduced) }
        /\ \A i, j \in 1..Len(similarities) :
               i < j =>
                   LET di == Dist2(final_vec, features_reduced[PosOf(similarities[i].sid)].features)
                       dj == Dist2(final_vec, features_reduced[PosOf(similarities[j].sid)].features)
                   IN  \/ di < dj
                       \/ di = dj /\ PosOf(similarities[i].sid) < PosOf(similarities[j].sid)
        /\ Len(candidate_song_ids) = Min(TopK, Len(similarities))
        /\ \A i \in 1..Len(candidate_song_ids) :
               candidate_song_ids[i] = similarities[i].sid

C8_Witness ==
    /\ Selected
    /\ RanFallback
    /\ Len(similarities) > TopK
    /\ \E i \in 1..Len(similarities) - 1 :
           /\ similarities[i].similarity = similarities[i + 1].similarity
           /\ similarities[i].sid < similarities[i + 1].sid
    /\ \E i \in 1..Len(similarities) - 1 :
           similarities[i].sid > similarities[i + 1].sid

\* C9: the fallback hands on at most TopK candidates, and no similarity is
\* above 1, not even for a catalogue song equal to the query vector.
C9_FallbackBounded ==
    (Selected /\ RanFallback) =>
        /\ Len(candidate_song_ids) <= TopK
        /\ \A i \in 1..Len(similarities) :
               similarities[i].similarity.num <= similarities[i].similarity.den

C9_Witness ==
    /\ Selected
    /\ RanFallback
    /\ Len(features_reduced) > TopK
    /\ \E i \in 1..Len(features_reduced) : features_reduced[i].features = final_vec
    /\ similarities[1].similarity.num = similarities[1].similarity.den

\* C10: the similarity search runs only when the assigned label has no
\* member; when it has members no search runs and the candidates are
\* exactly these members, in catalogue order.
C10_FallbackOnlyWhenEmpty ==
    /\ (pc = "fallback" \/ RanFallback) => MemberPositions(cluster_id) = {}
    /\ (Selected /\ MemberPositions(cluster_id) # {}) =>
           /\ ~RanFallback
           /\ similarities = << >>
           /\ Len(candidate_song_ids) = Cardinality(MemberPositions(cluster_id))
           /\ \A i \in 1..Len(candidate_song_ids) :
                  /\ PosOf(candidate_song_ids[i]) \in MemberPositions(cluster_id)
                  /\ \A j \in 1..Len(candidate_song_ids) :
                         i < j => PosOf(candidate_song_ids[i]) < PosOf(candidate_song_ids[j])

C10_Witness ==
    /\ Selected
    /\ ~RanFallback
    /\ Len(candidate_song_ids) >= 2
    /\ Len(candidate_song_ids) < Len(features_reduced)


(* ================= properties of failures and of the steps ============= *)
LastStep == IF trace = << >> THEN "none" ELSE trace[Len(trace)]
Visited(step) == \E i \in 1..Len(trace) : trace[i] = step

\* the ranking loop has ended, by falling through or by an exception
RankEnded == Visited("rank")

\* a metadata entry without a usable URL: key missing, or value null
Urlless(song_meta) ==
    "perma_url" \notin DOMAIN song_meta \/ song_meta.perma_url = None

\* C11: a candidate whose URL is null or absent is emitted like any other
\* candidate and does not keep the request from emitting its candidates.
C11_UrllessEmitted ==
    \A i \in 1..Len(Take(candidate_song_ids, Limit)) :
        (/\ RankEnded
         /\ candidate_song_ids[i] \in DOMAIN song_id_to_meta
         /\ Urlless(song_id_to_meta[candidate_song_ids[i]]))
            => /\ pc # "failed"
               /\ \E k \in 1..Len(top_songs) :
                      top_songs[k].song_id = candidate_song_ids[i]

\* C12: a request that failed at any step has a payload with an error
\* string and no recommendations.
C12_FailureHasPayload ==
    pc = "failed" =>
        /\ "error" \in DOMAIN result
        /\ result.recommendations = << >>

PastAssembly == pc \in {"assign", "select", "fallback", "rank", "record", "done"}

\* C13: a request that got past assembly has a vector of the length of
\* every catalogue vector and of every centroid (a vector of another length
\* fails at assembly).
C13_LengthChecked ==
    PastAssembly =>
        /\ \A i \in 1..Len(cluster_centroids) :
               Len(cluster_centroids[i].centroid) = Len(final_vec)
        /\ \A i \in 1..Len(features_reduced) :
               Len(features_reduced[i].features) = Len(final_vec)

PathCluster ==
    << "decode", "extract", "reduce", "combine", "assign", "select",
       "rank", "record" >>
PathFallback ==
    << "decode", "extract", "reduce", "combine", "assign", "select",
       "fallback", "rank", "record" >>

IsPrefix(p, q) == Len(p) <= Len(q) /\ \A i \in 1..Len(p) : p[i] = q[i]

\* the candidates are the non-empty member list of the assigned label
FromCluster ==
    /\ candidate_song_ids # << >>
    /\ candidate_song_ids = Get(cluster_to_song_ids, cluster_id, << >>)
    /\ ~Visited("fallback")

\* C15: the steps of a request are visited in the order decode, feature
\* extraction, reduction and assembly, assignment, candidate selection,
\* ranking, record; the candidates come from the cluster or from the
\* fallback, never both and never neither.
C15_StepOrder ==
    /\ IsPrefix(trace, PathCluster) \/ IsPrefix(trace, PathFallback)
    /\ pc = "done" => trace \in {PathCluster, PathFallback}
    /\ RankEnded => (Visited("fallback") <=> ~FromCluster)

C15_Witness ==
    /\ pc = "done"
    /\ trace = PathFallback
    /\ candidate_song_ids # << >>

\* a step of the current file ends with an exception
FailStep == Next /\ pc' = "failed"

C17_EmptyCatalogueCompletes ==
    (features_reduced = << >> /\ (pc = "fallback" \/ Visited("fallback"))) =>
        /\ pc # "failed"
        /\ pc = "done" =>
               /\ result.recommendations = << >>
               /\ result.method = "similarity"
               /\ result.total_candidates = 0

C17_Witness ==
    /\ pc = "done"
    /\ features_reduced = << >>
    /\ Visited("fallback")
    /\ result.recommendations = << >>

\* C18: no step of any request, successful or failed, changes the
\* catalogue, the centroids, the label-to-members map or the metadata.
C18_TablesFrozen == [][loaded' = loaded]_vars

C18_Witness ==
    /\ pc = "done"
    /\ Visited("fallback")
    /\ Len(similarities) >= 2
    /\ similarities[1].sid # features_reduced[1].sid

\* pca.transform has returned for the current file
ReducerApplied ==
    Visited("reduce") /\ ~(pc = "failed" /\ LastStep = "reduce")

\* C20: the reducer is applied only to a loaded artifact, the artifact is
\* loaded once, and after the load no step changes it.
C20_ReducerLoadedOnce ==
    /\ [](ReducerApplied => pca.loaded)
    /\ [](pca.loads <= 1)
    /\ [](pc # "load" => pca = Artifact)
    /\ [][pc # "load" => pca' = pca]_vars

C20_Witness ==
    /\ pc = "done"
    /\ ReducerApplied
    /\ pca = Artifact


(* ================= properties of the recommendation list ============== *)
\* song ids of the catalogue songs recorded with the label, in catalogue order
RECURSIVE MembersInOrder(_, _)
MembersInOrder(catalogue, label) ==
    IF catalogue = << >> THEN << >>
    ELSE IF Head(catalogue).cluster = label
         THEN << Head(catalogue).sid >> \o MembersInOrder(Tail(catalogue), label)
         ELSE MembersInOrder(Tail(catalogue), label)

RecIds == [k \in 1..Len(Recs) |-> Recs[k].song_id]

ClusterPath == pc = "done" /\ result.method = "cluster"

\* C21: on the cluster path every recommended song is recorded with the
\* assigned label; when the cluster has at most Limit members, all in the
\* metadata table and with distinct URLs, the recommendations are exactly
\* the members, in catalogue order.
C21_ExactlyTheCluster ==
    ClusterPath =>
        LET members == MembersInOrder(features_reduced, result.cluster_id)
        IN  /\ \A k \in 1..Len(Recs) :
                   features_reduced[PosOf(Recs[k].song_id)].cluster = result.cluster_id
            /\ (/\ Len(members) <= Limit
                /\ \A i \in 1..Len(members) : members[i] \in DOMAIN song_id_to_meta
                /\ DistinctUrls(members))
                   => RecIds = members

C21_Witness ==
    /\ ClusterPath
    /\ Len(Recs) >= 2
    /\ Len(Recs) < Len(features_reduced)
    /\ RecIds = MembersInOrder(features_reduced, result.cluster_id)
    /\ DistinctUrls(RecIds)

\* C22: a completed request has at most Limit recommendations, on the
\* cluster path and on the fallback path.
C22_AtMostLimit == pc = "done" => Len(Recs) <= Limit

C22_Witness ==
    /\ ClusterPath
    /\ Cardinality(MemberPositions(result.cluster_id)) > Limit
    /\ Len(Recs) = Limit

\* position of a song id in the candidate list of the request
CandPos(sid) == CHOOSE i \in 1..Len(candidate_song_ids) : candidate_song_ids[i] = sid

\* C30: every recommendation of a completed request is a candidate of the
\* request with an entry in the metadata table, no candidate is recommended
\* twice, and the recommendations are in the order of the candidate list.
C30_RecsFromCandidates ==
    pc = "done" =>
        /\ \A k \in 1..Len(Recs) :
               /\ Recs[k].song_id \in DOMAIN song_id_to_meta
               /\ \E i \in 1..Len(candidate_song_ids) :
                      candidate_song_ids[i] = Recs[k].song_id
        /\ \A k, l \in 1..Len(Recs) :
               k < l => CandPos(Recs[k].song_id) < CandPos(Recs[l].song_id)

C30_Witness ==
    /\ pc = "done"
    /\ Len(Recs) >= 2
    /\ \E i \in 1..Len(candidate_song_ids) :
           /\ i < Len(candidate_song_ids)
           /\ candidate_song_ids[i] \notin DOMAIN song_id_to_meta


(* =============== the two assemblers of the fused vector ================ *)
\* np.argsort(scores)[::-1]: class indices by descending score
RECURSIVE InsertByScore(_, _, _)
InsertByScore(sorted, i, scores) ==
    IF sorted = << >> THEN << i >>
    ELSE IF scores[i] >= scores[Head(sorted)]
         THEN << i >> \o sorted
         ELSE << Head(sorted) >> \o InsertByScore(Tail(sorted), i, scores)

RECURSIVE ArgsortFrom(_, _, _)
ArgsortFrom(i, sorted, scores) ==
    IF i > Len(scores) THEN sorted
    ELSE ArgsortFrom(i + 1, InsertByScore(sorted, i, scores), scores)

ArgsortDesc(scores) == ArgsortFrom(1, << >>, scores)

\* {CLASS_NAMES[i]: float(scores[i]) for i in top_idx if scores[i] > 0.15}:
\* the dict in insertion order, as (class, score) pairs
RECURSIVE AboveThreshold(_, _)
AboveThreshold(top_idx, scores) ==
    IF top_idx = << >> THEN << >>
    ELSE IF scores[Head(top_idx)] > Threshold
         THEN << [class |-> Head(top_idx), score |-> scores[Head(top_idx)]] >>
              \o AboveThreshold(Tail(top_idx), scores)
         ELSE AboveThreshold(Tail(top_idx), scores)

Instruments(scores) == AboveThreshold(Take(ArgsortDesc(scores), TopClasses), scores)

\* prediction.py line 113: list(instruments.values())[0] if instruments else 0.0
top_instrument_score(instruments) ==
    IF instruments # << >> THEN instruments[1].score ELSE 0

\* prediction.py line 121: np.hstack([librosa_feat, yamnet_feat_reduced,
\*                                    [instrument_feat], [duration_feat]])
combine_features_swapped(librosa_feat, yamnet_feat_reduced, instrument_feat, duration_feat) ==
    librosa_feat \o yamnet_feat_reduced \o << duration_feat >> \o << instrument_feat >>
combine_features(librosa_feat, yamnet_feat_reduced, instrument_feat, duration_feat) ==
    librosa_feat \o yamnet_feat_reduced \o << instrument_feat >> \o << duration_feat >>

\* features_extractor.py lines 74-77 and 125-127, main lines 165-167: the
\* entry of features_combined.json for one song
CombinedEntry(librosa_feat, duration, embedding, scores) ==
    [features |-> librosa_feat, duration |-> duration,
     yamnet_embedding |-> embedding, instruments |-> Instruments(scores)]

\* feature_selector.py lines 20-21
instrument_feats(song) ==
    IF song.instruments # << >> THEN << song.instruments[1].score >> ELSE << 0 >>

\* feature_selector.py line 34: np.hstack([librosa_feats, yamnet_reduced,
\*                                         instrument_feats, duration_feats])
final_features(song, yamnet_reduced) ==
    song.features \o yamnet_reduced \o instrument_feats(song) \o << song.duration >>

ScoreLevels == {0, Threshold, Threshold + 1, 40}

\* the prediction loop and the web front end are not running
PredictionOff ==
    /\ cluster_centroids = << >>
    /\ features_reduced = << >>
    /\ song_id_to_meta = << >>
    /\ cluster_to_song_ids = EmptyMap
    /\ pca = Artifact
    /\ pc = "off"
    /\ final_vec = << >>
    /\ cluster_id = Unassigned
    /\ candidate_song_ids = << >>
    /\ similarities = << >>
    /\ top_songs = << >>
    /\ result = NoResult
    /\ trace = << >>

\* one audio item: its librosa block, its reduced embedding, its mean
\* class scores and its duration; both assemblers get the same item
InitAssemble ==
    /\ PredictionOff
    /\ web = << >>
    /\ fs = << >>
    /\ job = << >>
    /\ \E l \in [1..LibLen -> 0..1], e \in [1..EmbLen -> 2..3],
          sc \in [1..NumClasses -> ScoreLevels], d \in 50..51 :
          asm = [step |-> "blocks", librosa |-> l, reduced |-> e,
                 scores |-> sc, duration |-> d,
                 query |-> << >>, build |-> << >>]

\* prediction.py lines 104-121 and 159
AssembleQuery ==
    /\ asm.step \in {"blocks", "built"}
    /\ asm' = [asm EXCEPT
                 !.query = combine_features(asm.librosa, asm.reduced,
                               top_instrument_score(Instruments(asm.scores)),
                               asm.duration),
                 !.step = IF asm.step = "blocks" THEN "queried" ELSE "both"]
    /\ UNCHANGED << loaded, pca, perfile, web, fs, job >>

\* features_extractor.py and feature_selector.py lines 17-34
AssembleBuild ==
    /\ asm.step \in {"blocks", "queried"}
    /\ asm' = [asm EXCEPT
                 !.build = final_features(
                               CombinedEntry(asm.librosa, asm.duration,
                                             asm.reduced, asm.scores),
                               asm.reduced),
                 !.step = IF asm.step = "blocks" THEN "built" ELSE "both"]
    /\ UNCHANGED << loaded, pca, perfile, web, fs, job >>

NextAssemble ==
    \/ AssembleQuery
    \/ AssembleBuild

SpecAssemble == InitAssemble /\ [][NextAssemble]_vars

\* the highest class score above the threshold, 0 when there is none
BestScore(scores) ==
    LET above == { scores[i] : i \in { k \in 1..Len(scores) : scores[k] > Threshold } }
    IN  IF above = {} THEN 0
        ELSE CHOOSE m \in above : \A x \in above : x <= m

\* C14: for the same four sub-blocks the query-time vector equals the
\* catalogue-build vector, and both are the librosa block, the reduced
\* embedding, the best class score above the threshold (0 when none) and
\* the duration, in this order.
C14_SameLayout ==
    /\ asm.step \in {"queried", "both"} =>
           asm.query = asm.librosa \o asm.reduced
                           \o << BestScore(asm.scores) >> \o << asm.duration >>
    /\ asm.step = "both" => asm.query = asm.build

C14_Witness ==
    /\ asm.step = "both"
    /\ asm.query[Len(asm.query) - 1] > Threshold
    /\ \E i \in 1..Len(asm.scores) : asm.scores[i] = Threshold


(* ================= the web front end (main.py) ========================= *)
Requests == 1..NumRequests

\* main.py line 39: the directory all per-request directories live in
TEMP_DIR == << "temp_downloads" >>

\* names tempfile.TemporaryDirectory makes up: a name stands for the
\* directory one call made
TempNames == { << "tmp", i >> : i \in Requests }

\* videos by what prediction.run does with their audio: a result for a and
\* b, an error payload for c, an empty result for d, an exception for e
Videos == {"a", "b", "c", "d", "e"}

\* a url is the sequence of its parts
YouTubeUrl(v) == << "https:", IF v = "b" THEN "youtu.be" ELSE "youtube.com", v >>

\* request.get_json(): None, or the dict of the body: without a url key,
\* with an empty url, with a url of blanks, with the url of another site,
\* with the url of a video
Bodies ==
    { None,
      [other |-> << "x" >>],
      [url |-> << >>],
      [url |-> << " " >>],
      [url |-> << "https:", "example.com", "a" >>] }
    \cup { [url |-> YouTubeUrl(v)] : v \in Videos }

\* str.strip()
RECURSIVE LStrip(_)
LStrip(url) ==
    IF url # << >> /\ Head(url) = " " THEN LStrip(Tail(url)) ELSE url
RECURSIVE RStrip(_)
RStrip(url) ==
    IF url # << >> /\ url[Len(url)] = " "
    THEN RStrip(SubSeq(url, 1, Len(url) - 1)) ELSE url
Strip(url) == RStrip(LStrip(url))

\* line 110: data.get('url', '').strip()
youtube_url(data) == Strip(Get(data, "url", << >>))

\* 'youtube.com' in youtube_url
Contains(url, part) == \E i \in 1..Len(url) : url[i] = part

\* main.py lines 106-119: the message of the 400 response, None when the
\* request is let through
Rejection(data) ==
    IF data = None THEN << "No data provided" >>
    ELSE IF youtube_url(data) = << >> THEN << "YouTube URL is required" >>
    ELSE IF /\ ~Contains(youtube_url(data), "youtube.com")
            /\ ~Contains(youtube_url(data), "youtu.be")
         THEN << "Please provide a valid YouTube URL" >>
         ELSE None

InvalidNoHostCheck(data) == data = None \/ youtube_url(data) = << >>
Invalid(data) == Rejection(data) # None

\* what yt-dlp fetches for a url: the audio of its video, under its title
VideoOf(url) == url[Len(url)]
TitleOf(video) == << "title", video >>

\* prediction.run, imported at main.py line 26: a function of the audio
\* file alone, over tables that no request changes
RunRaises(content) == content = "e"
Run(content) ==
    IF content = "c" THEN [error |-> "analysis"]
    ELSE IF content = "d" THEN << >>
    ELSE [cluster_id |-> 0, total_candidates |-> 1, method |-> "cluster",
          recommendations |-> << << "similar to", content >> >>]

\* main.py line 130: the directory handed to download_youtube_audio
OutputPathShared(req) == TEMP_DIR
OutputPath(req) == req.dir

NoDir == << >>

NoFile == [dir |-> NoDir, name |-> << >>, content |-> ""]

NoResponse == [status |-> 0]

NewRequest(body) ==
    [pc |-> "recv", body |-> body, dir |-> NoDir, downloaded |-> FALSE,
     audio_file |-> NoFile, title |-> << >>, predictions |-> << >>,
     raised |-> FALSE, response |-> NoResponse]

InitWeb ==
    /\ PredictionOff
    /\ asm = [step |-> "off"]
    /\ job = << >>
    /\ web \in [Requests -> { NewRequest(b) : b \in Bodies }]
    /\ fs = [dirs |-> {TEMP_DIR}, files |-> {}]

\* lines 104-121
Validate(r) ==
    /\ web[r].pc = "recv"
    /\ web' = [web EXCEPT ![r] =
                 IF Invalid(web[r].body)
                 THEN [web[r] EXCEPT
                          !.pc = "sent",
                          !.response = [status |-> 400,
                                        error |-> Rejection(web[r].body)]]
                 ELSE [web[r] EXCEPT !.pc = "mkdtemp"]]
    /\ UNCHANGED << loaded, pca, perfile, asm, fs, job >>

\* line 125: a fresh directory under TEMP_DIR
MakeTempDir(r) ==
    /\ web[r].pc = "mkdtemp"
    /\ \E d \in TempNames \ { web[q].dir : q \in Requests } :
          /\ fs' = [fs EXCEPT !.dirs = @ \cup {d}]
          /\ web' = [web EXCEPT ![r] = [@ EXCEPT !.dir = d, !.pc = "download"]]
    /\ UNCHANGED << loaded, pca, perfile, asm, job >>

\* lines 72-74: yt-dlp writes '<title>.mp3' into the output directory
Download(r) ==
    /\ web[r].pc = "download"
    /\ LET video == VideoOf(youtube_url(web[r].body))
       IN  /\ fs' = [fs EXCEPT !.files = @ \cup
                        { [dir |-> OutputPath(web[r]), name |-> TitleOf(video),
                           content |-> video] }]
           /\ web' = [web EXCEPT ![r] = [@ EXCEPT !.downloaded = TRUE,
                                                  !.title = TitleOf(video),
                                                  !.pc = "glob"]]
    /\ UNCHANGED << loaded, pca, perfile, asm, job >>

\* lines 82-84: the download raises, (None, None) is returned
DownloadFail(r) ==
    /\ web[r].pc = "download"
    /\ web' = [web EXCEPT ![r] = [@ EXCEPT !.pc = "respond"]]
    /\ UNCHANGED << loaded, pca, perfile, asm, fs, job >>

\* lines 77-78: the first *.mp3 the directory listing gives
FindFile(r) ==
    /\ web[r].pc = "glob"
    /\ \E f \in { g \in fs.files : g.dir = OutputPath(web[r]) } :
          web' = [web EXCEPT ![r] = [@ EXCEPT !.audio_file = f, !.pc = "run"]]
    /\ UNCHANGED << loaded, pca, perfile, asm, fs, job >>

\* line 140
RunPipeline(r) ==
    /\ web[r].pc = "run"
    /\ ~RunRaises(web[r].audio_file.content)
    /\ web' = [web EXCEPT ![r] =
                 [@ EXCEPT !.predictions = Run(web[r].audio_file.content),
                           !.pc = "respond"]]
    /\ UNCHANGED << loaded, pca, perfile, asm, fs, job >>

\* line 140 raises: the with block is left by the exception
RunPipelineFail(r) ==
    /\ web[r].pc = "run"
    /\ RunRaises(web[r].audio_file.content)
    /\ web' = [web EXCEPT ![r] = [@ EXCEPT !.raised = TRUE, !.pc = "cleanup"]]
    /\ UNCHANGED << loaded, pca, perfile, asm, fs, job >>

\* lines 132-163: the value of the return statement inside the with block
ResponseOf(req) ==
    IF req.audio_file = NoFile
    THEN [status |-> 500, error |-> << "Failed to download audio from YouTube" >>]
    ELSE IF req.predictions = << >>
    THEN [status |-> 500, error |-> << "Failed to generate recommendations" >>]
    ELSE IF "error" \in DOMAIN req.predictions
    THEN [status |-> 500,
          error |-> << "Audio analysis failed", req.predictions.error >>]
    ELSE [status |-> 200,
          original_song |-> [title |-> req.title, url |-> youtube_url(req.body)],
          recommendations |-> req.predictions.recommendations,
          cluster_id |-> req.predictions.cluster_id,
          method |-> req.predictions.method,
          total_candidates |-> req.predictions.total_candidates]

\* lines 134, 144, 148, 163
Respond(r) ==
    /\ web[r].pc = "respond"
    /\ web' = [web EXCEPT ![r] = [@ EXCEPT !.response = ResponseOf(web[r]),
                                           !.pc = "cleanup"]]
    /\ UNCHANGED << loaded, pca, perfile, asm, fs, job >>

\* TemporaryDirectory.__exit__: the directory goes with what is in it
RemoveTreeKeepsFiles(filesystem, dir) ==
    [dirs |-> filesystem.dirs \ {dir}, files |-> filesystem.files]
RemoveTree(filesystem, dir) ==
    [dirs |-> filesystem.dirs \ {dir},
     files |-> { f \in filesystem.files : f.dir # dir }]

\* line 125, leaving the with block: by a return, whose value is then
\* sent, or by the exception, which lines 165-167 turn into a response
Cleanup(r) ==
    /\ web[r].pc = "cleanup"
    /\ fs' = RemoveTree(fs, web[r].dir)
    /\ web' = [web EXCEPT ![r] =
                 [@ EXCEPT !.pc = "sent",
                           !.response =
                               IF web[r].raised
                               THEN [status |-> 500,
                                     error |-> << "Processing failed" >>]
                               ELSE web[r].response]]
    /\ UNCHANGED << loaded, pca, perfile, asm, job >>

NextWeb ==
    \/ \E r \in Requests : Validate(r)
    \/ \E r \in Requests : MakeTempDir(r)
    \/ \E r \in Requests : Download(r)
    \/ \E r \in Requests : DownloadFail(r)
    \/ \E r \in Requests : FindFile(r)
    \/ \E r \in Requests : RunPipeline(r)
    \/ \E r \in Requests : RunPipelineFail(r)
    \/ \E r \in Requests : Respond(r)
    \/ \E r \in Requests : Cleanup(r)

SpecWeb == InitWeb /\ [][NextWeb]_vars

\* the response a request gets when it is the only one
Alone(req) ==
    IF Invalid(req.body) THEN [status |-> 400, error |-> Rejection(req.body)]
    ELSE IF ~req.downloaded
    THEN [status |-> 500, error |-> << "Failed to download audio from YouTube" >>]
    ELSE LET video == VideoOf(youtube_url(req.body))
             predictions == Run(video)
         IN  IF RunRaises(video)
             THEN [status |-> 500, error |-> << "Processing failed" >>]
             ELSE IF predictions = << >>
             THEN [status |-> 500,
                   error |-> << "Failed to generate recommendations" >>]
             ELSE IF "error" \in DOMAIN predictions
             THEN [status |-> 500,
                   error |-> << "Audio analysis failed", predictions.error >>]
             ELSE [status |-> 200,
                   original_song |-> [title |-> TitleOf(video),
                                      url |-> youtube_url(req.body)],
                   recommendations |-> predictions.recommendations,
                   cluster_id |-> predictions.cluster_id,
                   method |-> predictions.method,
                   total_candidates |-> predictions.total_candidates]

C26_CleanedBeforeResponse ==
    \A r \in Requests :
        web[r].pc = "sent" =>
            /\ web[r].dir \notin fs.dirs
            /\ \A f \in fs.files : f.dir # web[r].dir
            /\ web[r].audio_file \notin fs.files

C26_Witness ==
    \E r, q \in Requests :
        /\ web[r].pc = "sent" /\ web[r].response.status = 200
        /\ web[q].pc = "sent" /\ web[q].raised
        /\ web[r].dir # NoDir /\ web[q].dir # NoDir

\* the requests the claim names: no JSON body, url missing or blank, url
\* with neither 'youtube.com' nor 'youtu.be' in it
Blank(url) == \A i \in 1..Len(url) : url[i] = " "
Refusable(body) ==
    \/ body = None
    \/ "url" \notin DOMAIN body
    \/ Blank(body.url)
    \/ \A i \in 1..Len(body.url) : body.url[i] \notin {"youtube.com", "youtu.be"}

\* C27: such a request is answered with status 400 and an error payload,
\* and at no time has a directory, a download or a prediction.
C27_BadRequestRefused ==
    \A r \in Requests :
        Refusable(web[r].body) =>
            /\ web[r].pc \in {"recv", "sent"}
            /\ web[r].dir = NoDir
            /\ ~web[r].downloaded
            /\ web[r].audio_file = NoFile
            /\ web[r].predictions = << >>
            /\ ~web[r].raised
            /\ web[r].pc = "sent" =>
                   /\ web[r].response.status = 400
                   /\ "error" \in DOMAIN web[r].response
                   /\ web[r].response.error # << >>

C27_Witness ==
    \E r, q \in Requests :
        /\ web[r].pc = "sent"
        /\ web[r].body = [url |-> << "https:", "example.com", "a" >>]
        /\ web[r].response.status = 400
        /\ web[q].pc = "sent"
        /\ web[q].response.status = 200


(* ============ assign_cluster called again (prediction.py) ============== *)
\* the tables and names of prediction.py other than the centroids, the
\* assembler comparison and the web front end are not in use
OnlineIdle ==
    /\ features_reduced = << >>
    /\ song_id_to_meta = << >>
    /\ cluster_to_song_ids = EmptyMap
    /\ pca = Artifact
    /\ pc = "off"
    /\ final_vec = << >>
    /\ cluster_id = Unassigned
    /\ candidate_song_ids = << >>
    /\ similarities = << >>
    /\ top_songs = << >>
    /\ result = NoResult
    /\ trace = << >>
    /\ asm = [step |-> "off"]
    /\ web = << >>
    /\ fs = << >>

\* lines 31-35: the centroids as loaded, and one query vector
InitAssign ==
    /\ OnlineIdle
    /\ cluster_centroids \in CentroidTables
    /\ \E v \in Vectors : job = [script |-> "assign", feature_vec |-> v, labels |-> << >>]

Entry(table) == { table[i] : i \in 1..Len(table) }

\* line 163, called once more on the same vector: the dict is the same
\* object, its iteration order is its insertion order
AssignCallAnyOrder ==
    /\ Len(job.labels) < NumCalls
    /\ \E t \in CentroidTables :
          /\ Entry(t) = Entry(cluster_centroids)
          /\ job' = [job EXCEPT !.labels =
                        Append(@, assign_cluster(job.feature_vec, t))]
    /\ UNCHANGED online
AssignCall ==
    /\ Len(job.labels) < NumCalls
    /\ job' = [job EXCEPT !.labels =
                  Append(@, assign_cluster(job.feature_vec, cluster_centroids))]
    /\ UNCHANGED online

NextAssign == AssignCall

SpecAssign == InitAssign /\ [][NextAssign]_vars

NoUuid == << >>
RawName(i) == [title |-> << "song", i % 2, "official", i >>, uuid |-> NoUuid]

\* lines 16-49: the decoration of the title is cut off
clean_title(raw_title) == SubSeq(raw_title, 1, 2)

\* str(uuid.uuid4()): a value no other call returns
Uuid4(site, filename) == << site, filename.title >>

\* an entry of metadata.json written by an earlier run
Paired(i) == [title |-> << "song", i >>, uuid |-> << "earlier", i >>]
Earlier ==
    [f \in {Paired(0)} |-> [song_id |-> f.uuid, title |-> f.title, perma_url |-> None]]

\* lines 107-111: the task has its file name and nothing else yet
NewTask(filename) ==
    [pc |-> "fetch", filename |-> filename, metadata |-> None,
     song_uuid |-> NoUuid, new_filename |-> filename]

\* lines 93-105: the directory is listed, metadata.json is loaded (absent, or
\* from an earlier run together with the file that run renamed), and the
\* files without an entry get a task
InitPair ==
    /\ OnlineIdle
    /\ cluster_centroids = << >>
    /\ \E n \in 0..MaxFiles, had \in {{}, {Paired(0)}} :
          LET local_files == { RawName(i) : i \in 1..n } \cup had
              existing == [f \in had |-> Earlier[f]]
          IN  job = [script |-> "pair",
                     pc |-> "tasks",
                     dir |-> local_files,
                     local_files |-> local_files,
                     loaded_json |-> existing,
                     existing |-> existing,
                     lock |-> NoUuid,
                     tasks |-> [f \in { g \in local_files : g \notin DOMAIN existing }
                                   |-> NewTask(f)],
                     saved |-> None]

Running == { f \in DOMAIN job.tasks : job.tasks[f].pc \notin {"fetch", "done", "raised"} }

\* lines 57-88, found: the first search result, with a uuid of its own
FetchFound(f) ==
    /\ job.script = "pair" /\ job.pc = "tasks"
    /\ job.tasks[f].pc = "fetch"
    /\ Cardinality(Running) < NUM_THREADS
    /\ job' = [job EXCEPT !.tasks[f] =
                  [@ EXCEPT !.pc = "rename",
                            !.metadata = [song_id |-> Uuid4("fetch", f),
                                          title |-> clean_title(f.title),
                                          perma_url |-> << f.title >>]]]
    /\ UNCHANGED online

\* lines 85-88: no result, a bad status or an exception give None
FetchNone(f) ==
    /\ job.script = "pair" /\ job.pc = "tasks"
    /\ job.tasks[f].pc = "fetch"
    /\ Cardinality(Running) < NUM_THREADS
    /\ job' = [job EXCEPT !.tasks[f] = [@ EXCEPT !.pc = "rename"]]
    /\ UNCHANGED online

\* lines 113-120
Rename(f) ==
    /\ job.script = "pair" /\ job.pc = "tasks"
    /\ job.tasks[f].pc = "rename"
    /\ LET song_uuid == Uuid4("task", f)
           new_filename == [title |-> clean_title(f.title), uuid |-> song_uuid]
       IN  job' = [job EXCEPT
                      !.dir = (@ \ {f}) \cup {new_filename},
                      !.tasks[f] = [@ EXCEPT !.pc = "lock",
                                             !.song_uuid = song_uuid,
                                             !.new_filename = new_filename]]
    /\ UNCHANGED online

\* line 120 raises OSError: the future keeps the exception, nobody asks
\* for it (lines 137-138)
RenameFail(f) ==
    /\ job.script = "pair" /\ job.pc = "tasks"
    /\ job.tasks[f].pc = "rename"
    /\ job' = [job EXCEPT !.tasks[f] = [@ EXCEPT !.pc = "raised"]]
    /\ UNCHANGED online

\* line 122: with lock
Acquire(f) ==
    /\ job.script = "pair" /\ job.pc = "tasks"
    /\ job.tasks[f].pc = "lock"
    /\ job.lock = NoUuid
    /\ job' = [job EXCEPT !.lock = job.tasks[f].song_uuid,
                          !.tasks[f] = [@ EXCEPT !.pc = "store"]]
    /\ UNCHANGED online

\* lines 123-132: the entry stored for the file
EntryForFetched(task) ==
    IF task.metadata # None THEN task.metadata
    ELSE [song_id |-> task.song_uuid, title |-> clean_title(task.filename.title),
          metadata |-> None]
EntryFor(task) ==
    IF task.metadata # None
    THEN [task.metadata EXCEPT !.song_id = task.song_uuid]
    ELSE [song_id |-> task.song_uuid, title |-> clean_title(task.filename.title),
          metadata |-> None]

\* lines 123-133 and the end of the with block
Store(f) ==
    /\ job.script = "pair" /\ job.pc = "tasks"
    /\ job.tasks[f].pc = "store"
    /\ LET key == job.tasks[f].new_filename
       IN  job' = [job EXCEPT
                      !.existing = [k \in DOMAIN job.existing \cup {key} |->
                                       IF k = key THEN EntryFor(job.tasks[f])
                                       ELSE job.existing[k]],
                      !.lock = NoUuid,
                      !.tasks[f] = [@ EXCEPT !.pc = "done"]]
    /\ UNCHANGED online

\* lines 135-141: the pool is left when every task has ended, then the
\* map is dumped
Save ==
    /\ job.script = "pair" /\ job.pc = "tasks"
    /\ \A f \in DOMAIN job.tasks : job.tasks[f].pc \in {"done", "raised"}
    /\ job' = [job EXCEPT !.pc = "saved", !.saved = job.existing]
    /\ UNCHANGED online

NextPair ==
    \/ \E f \in DOMAIN job.tasks : FetchFound(f)
    \/ \E f \in DOMAIN job.tasks : FetchNone(f)
    \/ \E f \in DOMAIN job.tasks : Rename(f)
    \/ \E f \in DOMAIN job.tasks : RenameFail(f)
    \/ \E f \in DOMAIN job.tasks : Acquire(f)
    \/ \E f \in DOMAIN job.tasks : Store(f)
    \/ Save

SpecPair == InitPair /\ [][NextPair]_vars

\* the files the run gave a new name
Renamed == job.dir \ job.local_files

\* C25: the saved map has exactly the entries it was loaded with,
\* unchanged, and one entry per renamed file, under the new name and with
\* the uuid that is in the name.
C25_OneEntryPerRenamedFile ==
    job.pc = "saved" =>
        /\ DOMAIN job.saved = DOMAIN job.loaded_json \cup Renamed
        /\ \A k \in DOMAIN job.loaded_json : job.saved[k] = job.loaded_json[k]
        /\ \A f \in Renamed : job.saved[f].song_id = f.uuid
        /\ Cardinality(Renamed)
               = Cardinality({ f \in DOMAIN job.tasks : job.tasks[f].pc = "done" })

\* two files with the same clean title were renamed, one was found by the
\* search, and the run started from an earlier map
C25_Witness ==
    /\ job.pc = "saved"
    /\ job.loaded_json # << >>
    /\ \E f, g \in Renamed :
          /\ f # g
          /\ f.title = g.title
          /\ "perma_url" \in DOMAIN job.saved[f]
          /\ "perma_url" \notin DOMAIN job.saved[g]


(* ====== the download cleanup (dataset_preparation/filter_downloads.py) == *)
\* lines 10 and 13, in lower case
suffixes == {"lyrical", "full video", "reprise", "acoustic", "version", "edit"}
delete_keywords == {"remix", "mashup"}

\* file names of the dataset directory, as the words of the lower-cased
\* stem and the extension
FileNames ==
    { [stem |-> << "a" >>, ext |-> "mp3"],
      [stem |-> << "a", "lyrical" >>, ext |-> "mp3"],
      [stem |-> << "a", "remix" >>, ext |-> "mp3"],
      [stem |-> << "b" >>, ext |-> "mp3"],
      [stem |-> << "cover" >>, ext |-> "jpg"] }

\* a file: its name, the length of its audio, whether mutagen can read it
Files == [name : FileNames, length : {MAX_DURATION_SEC, MAX_DURATION_SEC + 1},
          readable : BOOLEAN]

\* lines 31-38: the suffix words are taken out
RECURSIVE normalize_title(_)
normalize_title(stem) ==
    IF stem = << >> THEN << >>
    ELSE IF Head(stem) \in suffixes THEN normalize_title(Tail(stem))
         ELSE << Head(stem) >> \o normalize_title(Tail(stem))

\* line 56: any(kw.lower() in f.lower() for kw in delete_keywords)
HasKeyword(name) == \E i \in 1..Len(name.stem) : name.stem[i] \in delete_keywords

\* lines 47-51: os.listdir gives the files in some order
InitClean ==
    /\ OnlineIdle
    /\ cluster_centroids = << >>
    /\ \E n \in 0..MaxFiles :
          \E listing \in [1..n -> Files] :
              /\ \A i, j \in 1..n : i # j => listing[i].name # listing[j].name
              /\ job = [script |-> "clean", pc |-> "loop",
                        listing |-> listing, i |-> 1,
                        dir |-> { listing[i] : i \in 1..n },
                        norm_to_original |-> << >>,
                        deleted_files |-> << >>,
                        downloaded_songs_txt |-> << >>]

InLoop == job.script = "clean" /\ job.pc = "loop" /\ job.i <= Len(job.listing)
Current == job.listing[job.i]

\* lines 52-53
SkipOther ==
    /\ InLoop
    /\ Current.name.ext # "mp3"
    /\ job' = [job EXCEPT !.i = @ + 1]
    /\ UNCHANGED online

Remove(f) ==
    [job EXCEPT !.i = @ + 1, !.dir = @ \ {f},
                !.deleted_files = Append(@, f.name)]

\* lines 56-59
DeleteKeyword ==
    /\ InLoop
    /\ Current.name.ext = "mp3"
    /\ HasKeyword(Current.name)
    /\ job' = Remove(Current)
    /\ UNCHANGED online

\* lines 62-67
DeleteLong ==
    /\ InLoop
    /\ Current.name.ext = "mp3"
    /\ ~HasKeyword(Current.name)
    /\ Current.readable
    /\ Current.length > MAX_DURATION_SEC
    /\ job' = Remove(Current)
    /\ UNCHANGED online

\* lines 68-70: the length cannot be read, the file is passed over
SkipUnreadable ==
    /\ InLoop
    /\ Current.name.ext = "mp3"
    /\ ~HasKeyword(Current.name)
    /\ ~Current.readable
    /\ job' = [job EXCEPT !.i = @ + 1]
    /\ UNCHANGED online

Checked ==
    /\ InLoop
    /\ Current.name.ext = "mp3"
    /\ ~HasKeyword(Current.name)
    /\ Current.readable
    /\ Current.length <= MAX_DURATION_SEC

\* norm in norm_to_original
Known(norm) ==
    \E k \in 1..Len(job.norm_to_original) : job.norm_to_original[k].norm = norm

\* lines 73-76
DeleteDuplicate ==
    /\ Checked
    /\ Known(normalize_title(Current.name.stem))
    /\ job' = Remove(Current)
    /\ UNCHANGED online

\* lines 77-78
Keep ==
    /\ Checked
    /\ ~Known(normalize_title(Current.name.stem))
    /\ job' = [job EXCEPT
                  !.i = @ + 1,
                  !.norm_to_original =
                      Append(@, [norm |-> normalize_title(Current.name.stem),
                                 original |-> Current.name])]
    /\ UNCHANGED online

\* lines 81-84
WriteList ==
    /\ job.script = "clean" /\ job.pc = "loop"
    /\ job.i > Len(job.listing)
    /\ job' = [job EXCEPT
                  !.pc = "done",
                  !.downloaded_songs_txt =
                      [k \in 1..Len(job.norm_to_original) |->
                          job.norm_to_original[k].original.stem]]
    /\ UNCHANGED online

NextClean ==
    \/ SkipOther
    \/ DeleteKeyword
    \/ DeleteLong
    \/ SkipUnreadable
    \/ DeleteDuplicate
    \/ Keep
    \/ WriteList

SpecClean == InitClean /\ [][NextClean]_vars

RemainingMp3 == { f \in job.dir : f.name.ext = "mp3" }

\* C28: after the run the list holds exactly the titles of the remaining
\* mp3 files, none of these has REMIX or MASHUP in its name or is longer
\* than ten minutes, and no two of them have the same normalized title.
C28_ListMatchesDirectory ==
    job.pc = "done" =>
        /\ { job.downloaded_songs_txt[k] : k \in 1..Len(job.downloaded_songs_txt) }
               = { f.name.stem : f \in RemainingMp3 }
        /\ \A f \in RemainingMp3 :
               ~HasKeyword(f.name) /\ f.length <= MAX_DURATION_SEC
        /\ \A f, g \in RemainingMp3 :
               f # g => normalize_title(f.name.stem) # normalize_title(g.name.stem)


(* ============ the feature extraction job (features_extractor.py) ======== *)
\* what happens to a file: both extractions work, it has no metadata
\* entry, librosa raises on it, or YAMNet raises on it
FileKinds == {"ok", "nometa", "librosa_fails", "yamnet_fails"}

\* lines 74-77: the entry of features_librosa.json
LibrosaEntry(i) == [features |-> << i >>, duration |-> 50 + i]

\* features_librosa.json of an earlier run: none, the entry of file 1, or
\* the entry of a song whose file is gone
EarlierFeatures ==
    { << >>,
      [sid \in {1} |-> LibrosaEntry(1)],
      [sid \in {0} |-> LibrosaEntry(0)] }

\* lines 134-141: the files are listed and the earlier features loaded
InitExtract ==
    /\ OnlineIdle
    /\ cluster_centroids = << >>
    /\ \E n \in 0..MaxFiles, earlier \in EarlierFeatures :
          \E kinds \in [1..n -> FileKinds] :
              job = [script |-> "extract", pc |-> "librosa",
                     files |-> kinds, idx |-> 1,
                     features_dict |-> earlier,
                     pending |-> 1..n,
                     features_combined_json |-> None]

\* lines 145-146: the file has a song id, and the id is in features_dict
InDict(i) == job.files[i] # "nometa" /\ i \in DOMAIN job.features_dict

InLibrosa == job.script = "extract" /\ job.pc = "librosa" /\ job.idx <= Len(job.files)

\* lines 145-147
LibrosaSkip ==
    /\ InLibrosa
    /\ InDict(job.idx)
    /\ job' = [job EXCEPT !.idx = @ + 1]
    /\ UNCHANGED online

\* lines 44-46 and 79-81: extract_features_librosa returns None
LibrosaNone ==
    /\ InLibrosa
    /\ ~InDict(job.idx)
    /\ job.files[job.idx] \in {"nometa", "librosa_fails"}
    /\ job' = [job EXCEPT !.idx = @ + 1]
    /\ UNCHANGED online

\* lines 148-154
LibrosaStore ==
    /\ InLibrosa
    /\ ~InDict(job.idx)
    /\ job.files[job.idx] \notin {"nometa", "librosa_fails"}
    /\ job' = [job EXCEPT
                  !.idx = @ + 1,
                  !.features_dict =
                      [sid \in DOMAIN job.features_dict \cup {job.idx} |->
                          IF sid = job.idx THEN LibrosaEntry(job.idx)
                          ELSE job.features_dict[sid]]]
    /\ UNCHANGED online

\* lines 159-162: every file is submitted
StartYamnet ==
    /\ job.script = "extract" /\ job.pc = "librosa"
    /\ job.idx > Len(job.files)
    /\ job' = [job EXCEPT !.pc = "yamnet"]
    /\ UNCHANGED online

\* lines 168-169
WithYamnet(entry, i) ==
    [k \in DOMAIN entry \cup {"yamnet_embedding", "instruments"} |->
        IF k = "yamnet_embedding" THEN << i, i >>
        ELSE IF k = "instruments" THEN << >>
        ELSE entry[k]]

\* lines 163-172, a result for a song that has a librosa entry
YamnetStore(i) ==
    /\ job.script = "extract" /\ job.pc = "yamnet"
    /\ i \in job.pending
    /\ job.files[i] \in {"ok", "librosa_fails"}
    /\ i \in DOMAIN job.features_dict
    /\ LET grown == [job.features_dict EXCEPT ![i] = WithYamnet(@, i)]
       IN  job' = [job EXCEPT !.pending = @ \ {i},
                              !.features_dict = grown,
                              !.features_combined_json = grown]
    /\ UNCHANGED online

\* lines 163-172, a result for a song without a librosa entry: only the
\* dump runs
YamnetDump(i) ==
    /\ job.script = "extract" /\ job.pc = "yamnet"
    /\ i \in job.pending
    /\ job.files[i] \in {"ok", "librosa_fails"}
    /\ i \notin DOMAIN job.features_dict
    /\ job' = [job EXCEPT !.pending = @ \ {i},
                          !.features_combined_json = job.features_dict]
    /\ UNCHANGED online

\* lines 119-121 and 128-130: extract_features_yamnet returns None
YamnetNone(i) ==
    /\ job.script = "extract" /\ job.pc = "yamnet"
    /\ i \in job.pending
    /\ job.files[i] \in {"nometa", "yamnet_fails"}
    /\ job' = [job EXCEPT !.pending = @ \ {i}]
    /\ UNCHANGED online

\* line 175
Finish ==
    /\ job.script = "extract" /\ job.pc = "yamnet"
    /\ job.pending = {}
    /\ job' = [job EXCEPT !.pc = "done"]
    /\ UNCHANGED online

NextExtract ==
    \/ LibrosaSkip
    \/ LibrosaNone
    \/ LibrosaStore
    \/ StartYamnet
    \/ \E i \in 1..Len(job.files) : YamnetStore(i)
    \/ \E i \in 1..Len(job.files) : YamnetDump(i)
    \/ \E i \in 1..Len(job.files) : YamnetNone(i)
    \/ Finish

SpecExtract == InitExtract /\ [][NextExtract]_vars

\* feature_selector.py lines 18-22 read these keys of every entry
\* (instruments with a default)
EntryKeys == {"features", "duration", "yamnet_embedding", "instruments"}

\* C29: after the run every entry of features_combined.json has librosa
\* features, a duration, a YAMNet embedding and instrument scores.
C29_EntriesComplete ==
    (job.pc = "done" /\ job.features_combined_json # None) =>
        \A sid \in DOMAIN job.features_combined_json :
            EntryKeys \subseteq DOMAIN job.features_combined_json[sid]


(* ==== the playlist downloader (dataset_preparation/ubuntu_downloader.py) = *)
Titles == {"t1", "t2"}

\* lines 16-21 and 43-54: downloaded_songs.txt is read into the set, the
\* playlists are listed; an entry may have the title of another entry
InitDownload ==
    /\ OnlineIdle
    /\ cluster_centroids = << >>
    /\ \E n \in 0..MaxVideos, had \in {{}, {"t1"}} :
          \E all_video_urls \in [1..n -> Titles] :
              job = [script |-> "download",
                     all_video_urls |-> all_video_urls,
                     downloaded_songs |-> had,
                     downloaded_songs_txt |-> [k \in 1..Cardinality(had) |-> "t1"],
                     task |-> [v \in 1..n |-> "submitted"],
                     fetched |-> << >>]

\* the tasks a worker thread is running
Busy ==
    { v \in DOMAIN job.task : job.task[v] \in {"download", "add", "append"} }

\* lines 60-64: a free worker takes the task and looks the title up
SkipVideo(v) ==
    /\ job.script = "download"
    /\ job.task[v] = "submitted"
    /\ Cardinality(Busy) < MAX_THREADS
    /\ job.all_video_urls[v] \in job.downloaded_songs
    /\ job' = [job EXCEPT !.task[v] = "skipped"]
    /\ UNCHANGED online

TakeVideo(v) ==
    /\ job.script = "download"
    /\ job.task[v] = "submitted"
    /\ Cardinality(Busy) < MAX_THREADS
    /\ job.all_video_urls[v] \notin job.downloaded_songs
    /\ job' = [job EXCEPT !.task[v] = "download"]
    /\ UNCHANGED online

\* lines 67-69
YdlDownload(v) ==
    /\ job.script = "download"
    /\ job.task[v] = "download"
    /\ job' = [job EXCEPT !.task[v] = "add",
                          !.fetched = Append(@, job.all_video_urls[v])]
    /\ UNCHANGED online

\* lines 75-77
YdlDownloadRaises(v) ==
    /\ job.script = "download"
    /\ job.task[v] = "download"
    /\ job' = [job EXCEPT !.task[v] = "failed"]
    /\ UNCHANGED online

\* line 70
AddTitle(v) ==
    /\ job.script = "download"
    /\ job.task[v] = "add"
    /\ job' = [job EXCEPT !.task[v] = "append",
                          !.downloaded_songs = @ \cup {job.all_video_urls[v]}]
    /\ UNCHANGED online

\* lines 71-74
AppendTitle(v) ==
    /\ job.script = "download"
    /\ job.task[v] = "append"
    /\ job' = [job EXCEPT !.task[v] = "success",
                          !.downloaded_songs_txt = Append(@, job.all_video_urls[v])]
    /\ UNCHANGED online

NextDownload ==
    \/ \E v \in DOMAIN job.task : SkipVideo(v)
    \/ \E v \in DOMAIN job.task : TakeVideo(v)
    \/ \E v \in DOMAIN job.task : YdlDownload(v)
    \/ \E v \in DOMAIN job.task : YdlDownloadRaises(v)
    \/ \E v \in DOMAIN job.task : AddTitle(v)
    \/ \E v \in DOMAIN job.task : AppendTitle(v)

SpecDownload == InitDownload /\ [][NextDownload]_vars

Times(seq, x) == Cardinality({ k \in 1..Len(seq) : seq[k] = x })

\* C24: no title is downloaded more than once in a run, and a title that
\* was downloaded is in downloaded_songs.txt exactly once when its task
\* has ended, also when two entries have the same title.
C24_EachTitleOnce ==
    \A t \in Titles :
        /\ Times(job.fetched, t) <= 1
        /\ (\E v \in DOMAIN job.task :
               job.all_video_urls[v] = t /\ job.task[v] = "success")
              => Times(job.downloaded_songs_txt, t) = 1

====
